---------------------------- MODULE Spec2Model ----------------------------
(***************************************************************************)
(* Model of src/demo/main.py: a Streamlit script that validates substrate  *)
(* design values, ranks reference rows by mean absolute error, and hands   *)
(* the top rows to a chat completion API.                                  *)
(*                                                                         *)
(* Numbers.  A Python float is modelled as a record [k, v]:                *)
(*   k = "num": the finite value v/1000 (v is an integer, so 0.1 mm is 100 *)
(*              and 125.999 is 125999);                                    *)
(*   k = "inf": float("inf");   k = "nan": float("nan");                   *)
(* and Python's None is the record with k = "none".                        *)
(*                                                                         *)
(* Field names.  The source's keys are written in ASCII:                   *)
(*   length_mm = 基板長さ_mm, width_mm = 基板幅_mm,                        *)
(*   thickness_mm = 基板厚み_mm, trace_width_mm = 配線幅_mm,               *)
(*   gap_mm = 配線間ギャップ_mm, trace_count = 配線本数,                   *)
(*   stretch_pct = 伸縮率_%, stretch_cycles = 伸縮回数,                    *)
(*   temperature_C = 温度_℃;                                               *)
(* the error column 誤差平均 is err and the sheet column シート名 is sheet.*)
(***************************************************************************)
EXTENDS Integers, Sequences, FiniteSets, TLC

VARIABLES
    inputs,               \* st.session_state.inputs
    additional_inputs,    \* st.session_state.additional_inputs
    chat_mode,            \* st.session_state.chat_mode
    messages,             \* st.session_state.messages
    context_data,         \* st.session_state.context_data
    full_inputs_for_chat, \* st.session_state.full_inputs_for_chat
    button_rendered,      \* the chat button is on the page of the last run
    last_op,              \* how the last script run ended
    invalid_fields,       \* last form run: validate_input's result
    secondary_read,       \* last form run: the secondary fields were read
    loaded,               \* last form run: the sheets that were loaded
    similar_data,         \* last form run: calculate_average_error's result
    sent,                 \* this run: the messages given to the API, if any
    full_response,        \* this run: the text streamed by the API, if any
    call                  \* last direct call of one of the functions

vars == <<inputs, additional_inputs, chat_mode, messages, context_data,
          full_inputs_for_chat, button_rendered, last_op, invalid_fields,
          secondary_read, loaded, similar_data, sent, full_response, call>>

session_vars == <<inputs, additional_inputs, chat_mode, messages, context_data,
                  full_inputs_for_chat, button_rendered, last_op,
                  invalid_fields, secondary_read, loaded, similar_data, sent,
                  full_response>>

-----------------------------------------------------------------------------
(* Python values *)

None == [k |-> "none", v |-> 0]

Num(n) == [k |-> "num", v |-> n]

PosInf == [k |-> "inf", v |-> 0]

NaN == [k |-> "nan", v |-> 0]

\* a <= b on Python floats: false when either side is NaN
Leq(a, b) ==
    IF a.k = "nan" \/ b.k = "nan" THEN FALSE
    ELSE IF b.k = "inf" THEN TRUE
    ELSE IF a.k = "inf" THEN FALSE
    ELSE a.v <= b.v

\* dict.get(key, default)
Get(d, key, default) == IF key \in DOMAIN d THEN d[key] ELSE default

\* {**a, **b}
Merge(a, b) ==
    [key \in DOMAIN a \cup DOMAIN b |-> IF key \in DOMAIN b THEN b[key] ELSE a[key]]

-----------------------------------------------------------------------------
(* Design rules *)

RULES ==
    << [key |-> "length_mm",      lower |-> Num(50000), upper |-> Num(200000)],
       [key |-> "width_mm",       lower |-> Num(30000), upper |-> Num(100000)],
       [key |-> "thickness_mm",   lower |-> Num(100),   upper |-> Num(1000)],
       [key |-> "trace_width_mm", lower |-> Num(200),   upper |-> Num(5000)],
       [key |-> "gap_mm",         lower |-> Num(500),   upper |-> PosInf] >>

RuleKeys == {RULES[i].key : i \in 1..Len(RULES)}

ADDITIONAL_KEYS == <<"trace_count", "stretch_pct", "stretch_cycles", "temperature_C">>

AdditionalKeySet == {ADDITIONAL_KEYS[i] : i \in 1..Len(ADDITIONAL_KEYS)}

\* the condition of line 26, with strict bounds
FieldInvalid_exclusive(val, lower, upper) ==
    val = None \/ ~(Leq(lower, val) /\ Leq(val, upper) /\ val # lower /\ val # upper)

\* val is None or not (lower <= val <= upper)
FieldInvalid(val, lower, upper) ==
    val = None \/ ~(Leq(lower, val) /\ Leq(val, upper))

RECURSIVE validate_from(_, _)
validate_from(inp, i) ==
    IF i > Len(RULES) THEN <<>>
    ELSE LET val == Get(inp, RULES[i].key, None)
         IN  (IF FieldInvalid(val, RULES[i].lower, RULES[i].upper)
              THEN <<RULES[i].key>> ELSE <<>>) \o validate_from(inp, i + 1)

validate_input(inp) == validate_from(inp, 1)

-----------------------------------------------------------------------------
(* Sheet selection *)

LargeSheets == <<"large_electrical", "large_mechanical">>

SmallSheets == <<"small_electrical", "small_mechanical">>

\* the selector with > in place of >=
get_sheet_names_strict(length, width) ==
    IF (Leq(Num(126000), length) /\ length # Num(126000))
       \/ (Leq(Num(51000), width) /\ width # Num(51000))
    THEN LargeSheets ELSE SmallSheets

get_sheet_names(length, width) ==
    IF Leq(Num(126000), length) \/ Leq(Num(51000), width)
    THEN LargeSheets ELSE SmallSheets

-----------------------------------------------------------------------------
(* Similarity ranking.  A loaded sheet is a sequence of rows [idx, vec]:   *)
(* idx is the row's index label (0, 1, ... as read_excel assigns it) and   *)
(* vec its values in the columns cols, in thousandths.  A scored row adds  *)
(* err and sheet.  err is kept as eight times the mean, that is the sum of *)
(* the absolute differences: dividing by 8 is exact in binary floating     *)
(* point, so the order and the ties of the means are those of the sums.    *)

cols == <<"length_mm", "width_mm", "thickness_mm", "trace_width_mm",
          "trace_count", "stretch_pct", "stretch_cycles", "temperature_C">>

\* [user_input.get(col, 0) for col in cols]
user_vector(user_input) == [i \in 1..Len(cols) |-> Get(user_input, cols[i], Num(0))]

Abs(x) == IF x < 0 THEN -x ELSE x

RECURSIVE SumAbs(_, _, _)
SumAbs(uv, vec, i) ==
    IF i > Len(cols) THEN 0 ELSE Abs(uv[i].v - vec[i]) + SumAbs(uv, vec, i + 1)

\* np.mean(np.abs(user_vector - row.values)) for a vector without None
row_error(uv, vec) ==
    IF \E i \in 1..Len(cols) : uv[i].k = "nan" THEN NaN
    ELSE IF \E i \in 1..Len(cols) : uv[i].k = "inf" THEN PosInf
    ELSE Num(SumAbs(uv, vec, 1))

\* One pass of the loop body (lines 41-44) over one sheet: the outcomes.
\*  - a sheet with rows and a None in the user vector: None - float raises
\*    TypeError inside apply;
\*  - a sheet without rows: apply returns a frame, not a column, and the
\*    assignment of line 43 raises ValueError or leaves an empty column,
\*    depending on the pandas release.
score_sheet(sheet_name, rows, user_input) ==
    LET uv == user_vector(user_input)
    IN  IF rows = <<>>
        THEN {[status |-> "ValueError", data |-> <<>>], [status |-> "ok", data |-> <<>>]}
        ELSE IF \E i \in 1..Len(cols) : uv[i] = None
        THEN {[status |-> "TypeError", data |-> <<>>]}
        ELSE {[status |-> "ok",
               data |-> [j \in 1..Len(rows) |->
                            [idx |-> rows[j].idx, vec |-> rows[j].vec,
                             err |-> row_error(uv, rows[j].vec),
                             sheet |-> sheet_name]]]}

\* the loop of lines 40-45: pd.concat in dict order, the first exception ends it
RECURSIVE combine(_, _, _, _)
combine(dfs, user_input, i, acc) ==
    IF i > Len(dfs) THEN {[status |-> "ok", data |-> acc]}
    ELSE UNION { IF o.status = "ok"
                 THEN combine(dfs, user_input, i + 1, acc \o o.data)
                 ELSE {o}
               : o \in score_sheet(dfs[i].sheet, dfs[i].rows, user_input) }

\* a < b in the order sort_values uses: numbers, then inf, NaN last
ErrClass(e) == IF e.k = "num" THEN 0 ELSE IF e.k = "inf" THEN 1 ELSE 2

ErrLess(a, b) ==
    \/ ErrClass(a) < ErrClass(b)
    \/ a.k = "num" /\ b.k = "num" /\ a.v < b.v

\* DataFrame.sort_values(by="err") with the default kind="quicksort", which
\* is not a stable sort: every ascending arrangement of the rows is a result
\* a build can produce.
RECURSIVE arrangements(_, _)
arrangements(data, left) ==
    IF left = {} THEN {<<>>}
    ELSE UNION { {<<data[i]>> \o t : t \in arrangements(data, left \ {i})}
               : i \in {j \in left : \A m \in left : ~ErrLess(data[m].err, data[j].err)} }

sort_values(data) == arrangements(data, 1..Len(data))

calculate_average_error(dfs, user_input) ==
    UNION { IF o.status = "ok"
            THEN {[status |-> "ok", data |-> s] : s \in sort_values(o.data)}
            ELSE {o}
          : o \in combine(dfs, user_input, 1, <<>>) }

-----------------------------------------------------------------------------
(* Top-N extraction and the chat context *)

\* Series.unique(): the distinct sheet names in order of first appearance
RECURSIVE unique_sheets(_, _, _)
unique_sheets(data, i, acc) ==
    IF i > Len(data) THEN acc
    ELSE IF \E j \in 1..Len(acc) : acc[j] = data[i].sheet
    THEN unique_sheets(data, i + 1, acc)
    ELSE unique_sheets(data, i + 1, Append(acc, data[i].sheet))

\* head with one row too many
head_plus_one(frame, n) ==
    IF n >= 0
    THEN SubSeq(frame, 1, IF n + 1 < Len(frame) THEN n + 1 ELSE Len(frame))
    ELSE SubSeq(frame, 1, IF Len(frame) + n > 0 THEN Len(frame) + n ELSE 0)

\* DataFrame.head(n): the first n rows; for n < 0 all but the last -n rows
head(frame, n) ==
    IF n >= 0
    THEN SubSeq(frame, 1, IF n < Len(frame) THEN n ELSE Len(frame))
    ELSE SubSeq(frame, 1, IF Len(frame) + n > 0 THEN Len(frame) + n ELSE 0)

\* top_data as the sequence of its items, in insertion order
get_top_similar_data(data, n) ==
    LET names == unique_sheets(data, 1, <<>>)
    IN  [i \in 1..Len(names) |->
            [sheet |-> names[i],
             data  |-> head(SelectSeq(data, LAMBDA r : r.sheet = names[i]), n)]]

\* The context text, kept as its parts: per sheet a title and the table
\* to_string(index=False) prints, that is the rows without their index label.
prepare_chat_context(top_data) ==
    [i \in 1..Len(top_data) |->
        [title |-> top_data[i].sheet,
         table |-> [j \in 1..Len(top_data[i].data) |->
                       [vec   |-> top_data[i].data[j].vec,
                        err   |-> top_data[i].data[j].err,
                        sheet |-> top_data[i].data[j].sheet]]]]

-----------------------------------------------------------------------------
(* Bounds and the values the model draws its inputs from *)

MaxRows == 2

MaxN == 3

\* what a primary field can hold: nothing, its bounds, a step outside them,
\* and the two non-finite floats float() parses
FieldValues(i) ==
    {None, NaN, PosInf, RULES[i].lower, Num(RULES[i].lower.v - 1)}
    \cup (IF RULES[i].upper.k = "num"
          THEN {RULES[i].upper, Num(RULES[i].upper.v + 1)} ELSE {})

DesignInputs ==
    [length_mm : FieldValues(1), width_mm : FieldValues(2),
     thickness_mm : FieldValues(3), trace_width_mm : FieldValues(4),
     gap_mm : FieldValues(5)]

Lengths == {Num(50000), Num(125999), Num(126000), Num(200000), NaN, PosInf}

Widths == {Num(30000), Num(50999), Num(51000), Num(100000), NaN, PosInf}

\* two valid sets of primary values: a large and a small substrate
LargePrimary ==
    [key \in RuleKeys |->
        CASE key = "length_mm" -> Num(150000)
          [] key = "width_mm" -> Num(60000)
          [] key = "thickness_mm" -> Num(500)
          [] key = "trace_width_mm" -> Num(1000)
          [] OTHER -> Num(1000)]

SmallPrimary == [LargePrimary EXCEPT !["length_mm"] = Num(100000), !["width_mm"] = Num(40000)]

SecondaryValue ==
    [key \in AdditionalKeySet |->
        CASE key = "trace_count" -> Num(4000)
          [] key = "stretch_pct" -> Num(10000)
          [] key = "stretch_cycles" -> Num(100000)
          [] OTHER -> Num(25000)]

\* the secondary fields, each set or left None
SecondaryInputs ==
    { [key \in AdditionalKeySet |-> IF key \in S THEN SecondaryValue[key] ELSE None]
      : S \in SUBSET AdditionalKeySet }

\* reference rows: one equal to the large user's vector, two at the same
\* distance from it
RowList ==
    << <<150000, 60000, 500, 1000, 4000, 10000, 100000, 25000>>,
       <<151000, 60000, 500, 1000, 4000, 10000, 100000, 25000>>,
       <<150000, 61000, 500, 1000, 4000, 10000, 100000, 25000>> >>

RowVecs == {RowList[i] : i \in 1..Len(RowList)}

\* the frames read_excel can return: up to MaxRows rows, indexed 0, 1, ...
Frames ==
    UNION { { [j \in 1..n |-> [idx |-> j - 1, vec |-> f[j]]] : f \in [1..n -> RowVecs] }
            : n \in 0..MaxRows }

-----------------------------------------------------------------------------
(* State *)

NoRanking == [status |-> "none", data |-> <<>>]

Init ==
    /\ inputs = [key \in RuleKeys |-> None]
    /\ additional_inputs = [key \in AdditionalKeySet |-> None]
    /\ chat_mode = FALSE
    /\ messages = <<>>
    /\ context_data = <<>>
    /\ full_inputs_for_chat = <<>>
    /\ button_rendered = FALSE
    /\ last_op = "start"
    /\ invalid_fields = <<>>
    /\ secondary_read = FALSE
    /\ loaded = <<>>
    /\ similar_data = NoRanking
    /\ sent = <<>>
    /\ full_response = ""
    /\ call = [fn |-> "none"]

-----------------------------------------------------------------------------
(* The functions called directly, on inputs drawn from the sets above: one *)
(* call from the initial state, and the top-N extraction on a ranking.     *)

CallValidate ==
    /\ call.fn = "none"
    /\ \E inp \in DesignInputs :
          call' = [fn |-> "validate_input", arg |-> inp, ret |-> validate_input(inp)]
    /\ UNCHANGED session_vars

CallSheetNames ==
    /\ call.fn = "none"
    /\ \E length \in Lengths, width \in Widths :
          call' = [fn |-> "get_sheet_names", arg |-> <<length, width>>,
                   ret |-> get_sheet_names(length, width)]
    /\ UNCHANGED session_vars

\* lines 106-114 on valid primary values: merge, select, load, rank
CallRank ==
    /\ call.fn = "none"
    /\ \E prim \in {LargePrimary, SmallPrimary}, sec \in SecondaryInputs,
          f1 \in Frames, f2 \in Frames :
          LET full_inputs == Merge(prim, sec)
              sheet_names == get_sheet_names(prim["length_mm"], prim["width_mm"])
              dfs == <<[sheet |-> sheet_names[1], rows |-> f1],
                       [sheet |-> sheet_names[2], rows |-> f2]>>
          IN  \E out \in calculate_average_error(dfs, full_inputs) :
                 call' = [fn |-> "calculate_average_error",
                          arg |-> [dfs |-> dfs, user_input |-> full_inputs],
                          ret |-> out]
    /\ UNCHANGED session_vars

CallTop ==
    /\ call.fn = "calculate_average_error"
    /\ call.ret.status = "ok"
    /\ \E n \in 0..MaxN :
          call' = [fn |-> "get_top_similar_data",
                   arg |-> [data |-> call.ret.data, n |-> n],
                   ret |-> get_top_similar_data(call.ret.data, n)]
    /\ UNCHANGED session_vars

NextFn == CallValidate \/ CallSheetNames \/ CallRank \/ CallTop

SpecFn == Init /\ [][NextFn]_vars

-----------------------------------------------------------------------------
(* Properties of the functions, checked under SpecFn *)

RuleIndex(key) == CHOOSE i \in 1..Len(RULES) : RULES[i].key = key

\* val is a number inside the closed interval of rule i, by integer comparison
WithinBounds(val, i) ==
    \/ /\ val.k = "num"
       /\ val.v >= RULES[i].lower.v
       /\ RULES[i].upper.k = "inf" \/ val.v <= RULES[i].upper.v
    \/ val.k = "inf" /\ RULES[i].upper.k = "inf"

Listed(ret, key) == \E j \in 1..Len(ret) : ret[j] = key

\* C1: validate_input returns exactly the primary field names, in RULES
\* order, whose value is None or outside the inclusive range [lower, upper]:
\* a field at a bound is not listed, a None field is listed, and every
\* failing field is listed.
C1_ValidateListsEveryFailingField ==
    call.fn = "validate_input" =>
        LET inp == call.arg
            ret == call.ret
        IN  /\ \A j \in 1..Len(ret) : ret[j] \in RuleKeys
            /\ \A j, m \in 1..Len(ret) : j < m => RuleIndex(ret[j]) < RuleIndex(ret[m])
            /\ \A i \in 1..Len(RULES) :
                  LET val == inp[RULES[i].key]
                  IN  /\ Listed(ret, RULES[i].key) <=> ~WithinBounds(val, i)
                      /\ val = None => Listed(ret, RULES[i].key)
                      /\ val \in {RULES[i].lower, RULES[i].upper} => ~Listed(ret, RULES[i].key)

\* two fields at their bounds pass, a None field and a field just below its
\* lower bound are both reported
C1_Witness ==
    /\ call.fn = "validate_input"
    /\ call.arg["length_mm"] = Num(50000)
    /\ call.arg["width_mm"] = Num(100000)
    /\ call.arg["thickness_mm"] = None
    /\ call.arg["trace_width_mm"] = Num(200)
    /\ call.arg["gap_mm"] = Num(499)
    /\ call.ret = <<"thickness_mm", "gap_mm">>

AtLeast(x, n) == x.k = "inf" \/ (x.k = "num" /\ x.v >= n)

\* C8: get_sheet_names returns one of the two fixed pairs for every
\* (length, width): the large pair iff length >= 126 or width >= 51, the
\* small pair otherwise.
C8_SheetNamesBimodal ==
    call.fn = "get_sheet_names" =>
        /\ call.ret \in {LargeSheets, SmallSheets}
        /\ call.ret = LargeSheets <=>
              (AtLeast(call.arg[1], 126000) \/ AtLeast(call.arg[2], 51000))
        /\ (call.arg[1] = Num(125999) /\ call.arg[2] = Num(50999)) => call.ret = SmallSheets

\* length exactly 126 with a small width selects the large pair
C8_Witness ==
    /\ call.fn = "get_sheet_names"
    /\ call.arg = <<Num(126000), Num(30000)>>
    /\ call.ret = LargeSheets

Min(a, b) == IF a < b THEN a ELSE b

\* the positions of sheet s in the ranked data, and the m-th of them
PositionsOf(data, s) == {j \in 1..Len(data) : data[j].sheet = s}

NthPosition(data, s, m) ==
    CHOOSE j \in PositionsOf(data, s) :
        Cardinality({q \in PositionsOf(data, s) : q <= j}) = m

\* C9: get_top_similar_data returns, for each distinct sheet of the ranked
\* data, exactly the first min(N, k) of that sheet's k rows in their ranked
\* order.
C9_TopNPerSheet ==
    call.fn = "get_top_similar_data" =>
        LET data == call.arg.data
            n == call.arg.n
            ret == call.ret
        IN  /\ {ret[i].sheet : i \in 1..Len(ret)} = {data[j].sheet : j \in 1..Len(data)}
            /\ \A i, q \in 1..Len(ret) : i # q => ret[i].sheet # ret[q].sheet
            /\ \A i \in 1..Len(ret) :
                  LET s == ret[i].sheet
                      k == Cardinality(PositionsOf(data, s))
                  IN  /\ Len(ret[i].data) = Min(n, k)
                      /\ Len(ret[i].data) <= n
                      /\ \A m \in 1..Len(ret[i].data) :
                            ret[i].data[m] = data[NthPosition(data, s, m)]

\* N = 1 on a ranking of two sheets, one of which has two rows and is cut
C9_Witness ==
    /\ call.fn = "get_top_similar_data"
    /\ call.arg.n = 1
    /\ Len(call.ret) = 2
    /\ \E i \in 1..2 : Cardinality(PositionsOf(call.arg.data, call.ret[i].sheet)) = 2
    /\ \A i \in 1..2 : Len(call.ret[i].data) = 1

\* the place of a scored row in the merged input: sheet order, then row order
SheetIndex(dfs, s) == CHOOSE i \in 1..Len(dfs) : dfs[i].sheet = s

ComesBefore(dfs, r1, r2) ==
    \/ SheetIndex(dfs, r1.sheet) < SheetIndex(dfs, r2.sheet)
    \/ SheetIndex(dfs, r1.sheet) = SheetIndex(dfs, r2.sheet) /\ r1.idx < r2.idx

\* C6: the ranked set is sorted ascending by error and the sort is stable:
\* rows of equal error keep their order of appearance in the merged input.
C6_SortedAndStable ==
    (call.fn = "calculate_average_error" /\ call.ret.status = "ok") =>
        LET out == call.ret.data
        IN  \A i, j \in 1..Len(out) :
               i < j => /\ ~ErrLess(out[j].err, out[i].err)
                        /\ out[i].err = out[j].err => ComesBefore(call.arg.dfs, out[i], out[j])

\* the user's vector with 0 in place of every unset field
ZeroFilled(user_input) ==
    [i \in 1..Len(cols) |->
        IF user_input[cols[i]] = None THEN Num(0) ELSE user_input[cols[i]]]

\* C7: with valid primary fields and sheets that hold rows, ranking succeeds
\* whichever secondary fields are unset, and every row's error is computed
\* with 0 in place of each unset field.
C7_UnsetFieldsCountAsZero ==
    (/\ call.fn = "calculate_average_error"
     /\ \A i \in 1..Len(call.arg.dfs) : call.arg.dfs[i].rows # <<>>) =>
        /\ call.ret.status = "ok"
        /\ \A j \in 1..Len(call.ret.data) :
              call.ret.data[j].err =
                 Num(SumAbs(ZeroFilled(call.arg.user_input), call.ret.data[j].vec, 1))

-----------------------------------------------------------------------------
(* The script.  One action is one run of the script, which Streamlit starts *)
(* on every interaction with a widget.  What st.text_input returns is kept  *)
(* as [t, val]: t = "blank" (value.strip() is empty), t = "text" (float()   *)
(* raises ValueError) or t = "float" (float() returns val).                 *)

MaxMessages == 4

MaxChunks == 2

DefaultN == 5

Blank == [t |-> "blank", val |-> None]

NotANumber == [t |-> "text", val |-> None]

Typed(x) == [t |-> "float", val |-> x]

\* the loops of lines 79-87 and 97-104 over keys[i..]: a typed number is
\* stored, a blank field leaves the stored value, text that is no number
\* stops the run with the fields before it already stored
RECURSIVE read_fields(_, _, _, _)
read_fields(keys, typed, state, i) ==
    IF i > Len(keys) THEN [stopped |-> FALSE, values |-> state]
    ELSE LET value == typed[keys[i]]
         IN  IF value.t = "blank" THEN read_fields(keys, typed, state, i + 1)
             ELSE IF value.t = "float"
             THEN read_fields(keys, typed, [state EXCEPT ![keys[i]] = value.val], i + 1)
             ELSE [stopped |-> TRUE, values |-> state]

PrimaryKeys == [i \in 1..Len(RULES) |-> RULES[i].key]

\* the gate of lines 90-94, never closing
validation_blocks_never(invalid) == FALSE

\* if invalid_fields: ... st.stop()
validation_blocks(invalid) == invalid # <<>>

\* the except branch of lines 194-195, keeping the partial text as a reply
on_chat_error_keep_partial(msgs, partial) ==
    Append(msgs, [role |-> "assistant", content |-> partial])

\* except Exception: st.error(...); the transcript is left as it is
on_chat_error(msgs, partial) == msgs

\* the messages list of lines 175-178
build_messages(system_content, user_input) ==
    << [role |-> "system", content |-> system_content],
       [role |-> "user", content |-> user_input] >>

\* the loop of lines 186-189: chunks without content are skipped
RECURSIVE stream_text(_, _)
stream_text(chunks, i) ==
    IF i > Len(chunks) THEN ""
    ELSE (IF chunks[i] = "none" THEN "" ELSE chunks[i]) \o stream_text(chunks, i + 1)

(* What the user types and what the collaborators return *)

TypedPrimary(f) == [key \in RuleKeys |-> IF key \in DOMAIN f THEN f[key] ELSE Blank]

TypedPrimaryCases ==
    { TypedPrimary(<<>>),
      [key \in RuleKeys |-> Typed(LargePrimary[key])],
      [key \in RuleKeys |-> Typed(SmallPrimary[key])],
      TypedPrimary([length_mm |-> Typed(Num(10000))]),
      TypedPrimary([length_mm |-> Typed(Num(10000)), thickness_mm |-> Typed(Num(2000))]),
      TypedPrimary([length_mm |-> Typed(Num(150000)), width_mm |-> NotANumber,
                    thickness_mm |-> Typed(Num(500))]) }

TypedSecondary(f) == [key \in AdditionalKeySet |-> IF key \in DOMAIN f THEN f[key] ELSE Blank]

TypedSecondaryCases ==
    { TypedSecondary(<<>>),
      [key \in AdditionalKeySet |-> Typed(SecondaryValue[key])],
      TypedSecondary([trace_count |-> Typed(Num(4000))]),
      TypedSecondary([trace_count |-> Typed(Num(4000)), stretch_pct |-> NotANumber,
                      stretch_cycles |-> Typed(Num(100000))]) }

\* the workbook: unreadable, or two sheets: the first holds the first rows
\* of RowList (none, one, ... up to MaxRows), the second the first of them
SheetContents ==
    {f \in Frames : \A j \in 1..Len(f) : f[j].vec = RowList[((j - 1) % Len(RowList)) + 1]}

Workbooks ==
    {[readable |-> FALSE, sheets |-> <<>>]}
    \cup {[readable |-> TRUE, sheets |-> <<f, SubSeq(f, 1, IF Len(f) > 1 THEN 1 ELSE Len(f))>>]
          : f \in SheetContents}

Questions == {"q1", "q2"}

\* a streamed reply: up to MaxChunks chunks, then the end of the stream or an
\* error (with no chunk: the call itself fails, as on a bad key)
Streams ==
    [chunks : UNION {[1..n -> {"a", "none"}] : n \in 0..MaxChunks}, completes : BOOLEAN]

-----------------------------------------------------------------------------
(* Form mode: lines 77-130 *)

FormRun ==
    /\ ~chat_mode
    /\ \E typed \in TypedPrimaryCases, typed2 \in TypedSecondaryCases,
          workbook \in Workbooks, clicked \in BOOLEAN :
       LET r1 == read_fields(PrimaryKeys, typed, inputs, 1)
           invalid == validate_input(r1.values)
           r2 == read_fields(ADDITIONAL_KEYS, typed2, additional_inputs, 1)
           full_inputs == Merge(r1.values, r2.values)
           length == r1.values["length_mm"]
           width == r1.values["width_mm"]
           sheet_names == get_sheet_names(length, width)
           dfs == <<[sheet |-> sheet_names[1], rows |-> workbook.sheets[1]],
                    [sheet |-> sheet_names[2], rows |-> workbook.sheets[2]]>>
       IN
       /\ clicked => button_rendered
       /\ inputs' = r1.values
       /\ sent' = <<>>
       /\ full_response' = ""
       /\ UNCHANGED <<messages, call>>
       /\ IF r1.stopped
          THEN /\ last_op' = "parse_error"
               /\ invalid_fields' = <<>>
               /\ secondary_read' = FALSE
               /\ loaded' = <<>>
               /\ similar_data' = NoRanking
               /\ button_rendered' = FALSE
               /\ UNCHANGED <<additional_inputs, chat_mode, context_data, full_inputs_for_chat>>
          ELSE
          /\ invalid_fields' = invalid
          /\ IF validation_blocks(invalid)
             THEN /\ last_op' = "invalid"
                  /\ secondary_read' = FALSE
                  /\ loaded' = <<>>
                  /\ similar_data' = NoRanking
                  /\ button_rendered' = FALSE
                  /\ UNCHANGED <<additional_inputs, chat_mode, context_data, full_inputs_for_chat>>
             ELSE
             /\ secondary_read' = TRUE
             /\ additional_inputs' = r2.values
             /\ IF r2.stopped
                THEN /\ last_op' = "parse_error"
                     /\ loaded' = <<>>
                     /\ similar_data' = NoRanking
                     /\ button_rendered' = FALSE
                     /\ UNCHANGED <<chat_mode, context_data, full_inputs_for_chat>>
                ELSE IF length = None \/ width = None \/ ~workbook.readable
                THEN \* None >= 126 raises TypeError, read_excel raises: line 129
                     /\ last_op' = "load_error"
                     /\ loaded' = <<>>
                     /\ similar_data' = NoRanking
                     /\ button_rendered' = FALSE
                     /\ UNCHANGED <<chat_mode, context_data, full_inputs_for_chat>>
                ELSE
                /\ loaded' = sheet_names
                /\ \E ranked \in calculate_average_error(dfs, full_inputs) :
                   /\ similar_data' = ranked
                   /\ IF ranked.status # "ok"
                      THEN /\ last_op' = "rank_error"
                           /\ button_rendered' = FALSE
                           /\ UNCHANGED <<chat_mode, context_data, full_inputs_for_chat>>
                      ELSE IF ranked.data = <<>>
                      THEN /\ last_op' = "empty"
                           /\ button_rendered' = FALSE
                           /\ UNCHANGED <<chat_mode, context_data, full_inputs_for_chat>>
                      ELSE IF ~clicked
                      THEN /\ last_op' = "shown"
                           /\ button_rendered' = TRUE
                           /\ UNCHANGED <<chat_mode, context_data, full_inputs_for_chat>>
                      ELSE /\ last_op' = "chat_entered"
                           /\ button_rendered' = FALSE
                           /\ chat_mode' = TRUE
                           /\ context_data' =
                                 prepare_chat_context(get_top_similar_data(ranked.data, DefaultN))
                           /\ full_inputs_for_chat' = full_inputs

-----------------------------------------------------------------------------
(* Chat mode: lines 133-195 *)

\* the button handler without the reset of the transcript
ReturnToForm_keeps_messages ==
    /\ chat_mode
    /\ chat_mode' = FALSE
    /\ last_op' = "return_to_form"
    /\ button_rendered' = FALSE
    /\ sent' = <<>>
    /\ full_response' = ""
    /\ UNCHANGED <<inputs, additional_inputs, messages, context_data,
                   full_inputs_for_chat, invalid_fields, secondary_read, loaded,
                   similar_data, call>>

\* the button of lines 137-140
ReturnToForm ==
    /\ chat_mode
    /\ chat_mode' = FALSE
    /\ messages' = <<>>
    /\ last_op' = "return_to_form"
    /\ button_rendered' = FALSE
    /\ sent' = <<>>
    /\ full_response' = ""
    /\ UNCHANGED <<inputs, additional_inputs, context_data, full_inputs_for_chat,
                   invalid_fields, secondary_read, loaded, similar_data, call>>

\* a submission in st.chat_input: lines 147-195
ChatSubmit ==
    /\ chat_mode
    /\ Len(messages) + 2 <= MaxMessages
    /\ \E user_input \in Questions, has_key \in BOOLEAN, stream \in Streams :
       LET with_user == Append(messages, [role |-> "user", content |-> user_input])
           system_content == [design |-> full_inputs_for_chat, context |-> context_data]
           text == stream_text(stream.chunks, 1)
       IN  IF ~has_key
           THEN /\ last_op' = "no_key"
                /\ sent' = <<>>
                /\ full_response' = ""
                /\ UNCHANGED messages
           ELSE /\ sent' = build_messages(system_content, user_input)
                /\ full_response' = text
                /\ IF stream.completes
                   THEN /\ messages' = Append(with_user, [role |-> "assistant", content |-> text])
                        /\ last_op' = "chat_ok"
                   ELSE /\ messages' = on_chat_error(with_user, text)
                        /\ last_op' = "chat_error"
    /\ UNCHANGED <<inputs, additional_inputs, chat_mode, context_data,
                   full_inputs_for_chat, button_rendered, invalid_fields,
                   secondary_read, loaded, similar_data, call>>

Next == FormRun \/ ReturnToForm \/ ChatSubmit

Spec == Init /\ [][Next]_vars

-----------------------------------------------------------------------------
(* Properties of the session, checked under Spec *)

\* C2: a form run whose validation returns a non-empty list reads no
\* secondary field, loads no sheet, computes no ranking and does not enter
\* chat mode; chat_mode becomes true only in a run whose validation returned
\* the empty list and whose ranked result set was non-empty.
C2_InvalidInputBlocksProgress ==
    [][ /\ (~chat_mode /\ invalid_fields' # <<>>) =>
              /\ ~secondary_read'
              /\ loaded' = <<>>
              /\ similar_data' = NoRanking
              /\ ~chat_mode'
        /\ (~chat_mode /\ chat_mode') =>
              /\ invalid_fields' = <<>>
              /\ \A i \in 1..Len(RULES) : WithinBounds(inputs'[RULES[i].key], i)
              /\ similar_data'.status = "ok"
              /\ similar_data'.data # <<>> ]_vars

\* the secondary fields were all entered in an earlier run, then two primary
\* fields were made invalid: the run stops at the validation
C2_Witness ==
    /\ ~chat_mode
    /\ last_op = "invalid"
    /\ invalid_fields = <<"length_mm", "thickness_mm">>
    /\ ~secondary_read
    /\ loaded = <<>>
    /\ \A key \in AdditionalKeySet : additional_inputs[key] # None

\* C3: after the return from chat mode to the form every primary and
\* secondary field of the session is None again.
C3_ReturnResetsDesignInput ==
    last_op = "return_to_form" =>
        /\ \A key \in RuleKeys : inputs[key] = None
        /\ \A key \in AdditionalKeySet : additional_inputs[key] = None

\* C4: when the completion call fails, before or during streaming, the
\* messages of the transcript before the submission are still there, in
\* order, no assistant message is added for the attempt, and the session
\* stays in chat mode.
C4_FailedChatKeepsTranscript ==
    [][ last_op' = "chat_error" =>
          /\ Len(messages') >= Len(messages)
          /\ SubSeq(messages', 1, Len(messages)) = messages
          /\ \A i \in (Len(messages) + 1)..Len(messages') : messages'[i].role # "assistant"
          /\ chat_mode' ]_vars

\* a completed exchange, then a submission whose stream failed after "a"
C4_Witness ==
    /\ last_op = "chat_error"
    /\ full_response = "a"
    /\ Len(messages) = 3
    /\ messages[2].role = "assistant"
    /\ messages[3].role = "user"

\* C5: the conversation given to the completion API is the system
\* instruction, then the transcript before the submission, then the new
\* user message.
C5_ApiReceivesTranscript ==
    last_op \in {"chat_ok", "chat_error"} =>
        LET upto == IF last_op = "chat_ok" THEN Len(messages) - 1 ELSE Len(messages)
        IN  /\ sent[1].role = "system"
            /\ SubSeq(sent, 2, Len(sent)) = SubSeq(messages, 1, upto)

\* C10: in form mode the transcript is empty, and in chat mode it alternates
\* user, assistant, user, ... starting with a user message.
C10_StrictAlternation ==
    /\ ~chat_mode => messages = <<>>
    /\ \A i \in 1..Len(messages) :
          messages[i].role = (IF i % 2 = 1 THEN "user" ELSE "assistant")

\* C10 as amended: in form mode the transcript is empty; in chat mode it
\* holds user and assistant messages only, and every assistant message
\* directly follows a user message (so it starts with a user message); a
\* user message whose completion failed stays without a reply.
C10_RepliesFollowQuestions ==
    /\ ~chat_mode => messages = <<>>
    /\ \A i \in 1..Len(messages) :
          /\ messages[i].role \in {"user", "assistant"}
          /\ messages[i].role = "assistant" => (i > 1 /\ messages[i - 1].role = "user")

\* a failed submission followed by a completed one
C10_Witness ==
    /\ chat_mode
    /\ Len(messages) = 3
    /\ messages[1].role = "user"
    /\ messages[2].role = "user"
    /\ messages[3].role = "assistant"

=============================================================================
